---------------------------- MODULE Spec2Model ----------------------------
(***************************************************************************)
(* Model of the sagre-crawler extraction pipeline: the shared helpers      *)
(* (parseItalianDate, isFestivalPast, generateFestivalKey, isDuplicate),   *)
(* the three detail handlers and the crawl engine that runs them, the      *)
(* Strapi upload that follows a push, and the cleanup script.              *)
(*                                                                         *)
(* Text is modelled at two levels.  Titles and locations are sequences of  *)
(* one-character strings, so that toLowerCase, trim and the "|" join of    *)
(* generateFestivalKey are computed.  Date text is a sequence of tokens    *)
(* (number, word, dash) separated by white space, which is the level the   *)
(* date regexes work at.                                                   *)
(*                                                                         *)
(* Time is counted in hours since 1970-01-01T00:00Z.  A Date is its        *)
(* instant; the process's time zone is tzOffset hours east of UTC.         *)
(***************************************************************************)
EXTENDS Integers, Sequences, FiniteSets, TLC

VARIABLES
    now,            \* the wall clock: the instant "new Date()" returns
    tzOffset,       \* UTC offset of the running process, in hours
    seenFestivals,  \* helpers.ts: the module-level Set of keys
    argA, argB,     \* unit harness: the records handed to a helper
    ret,            \* unit harness: what the last helper call returned
    calls,          \* unit harness: isDuplicate calls since the last clear
    env,            \* process.env: the Strapi upload configuration
    pages,          \* the detail pages of the crawl, as fetched
    status,         \* per page: where its request stands in the engine
    step,           \* per page: position of the handler in its program
    candidate,      \* per page: the handler's festivalData object
    trace,          \* per page: what the current handler run did (history)
    retries,        \* per page: request.retryCount
    running,        \* the page whose handler holds the JS thread, or 0
    dataset,        \* the output sink: items pushed, in order
    invalidPages,   \* history: pages whose handler raised on validation
    afterInvalid,   \* history: pages started after such a raise
    cleanup         \* cleanup.ts: the store's festivals, the run's position,
                    \* its result and the DELETE requests it issued

\* cleanup belongs to a separate script: it stands in both groups, which is
\* how the crawl's actions and the helper calls leave it unchanged.
clockVars   == <<now, tzOffset>>
harnessVars == <<argA, argB, ret, calls, cleanup>>
crawlVars   == <<env, pages, status, step, candidate, trace, retries,
                 running, dataset, invalidPages, afterInvalid, cleanup>>
vars == <<now, tzOffset, seenFestivals, argA, argB, ret, calls, env, pages,
          status, step, candidate, trace, retries, running, dataset,
          invalidPages, afterInvalid, cleanup>>

-----------------------------------------------------------------------------
(* The JavaScript Date arithmetic the helpers rely on.                     *)

HoursPerDay == 24

\* Days from 1970-01-01 to the civil date y-m-d (m in 1..12).
DaysFromCivil(y, m, d) ==
    LET yy  == IF m <= 2 THEN y - 1 ELSE y
        era == yy \div 400
        yoe == yy - era * 400
        mp  == (m + 9) % 12
        doy == (153 * mp + 2) \div 5 + d - 1
        doe == yoe * 365 + yoe \div 4 - yoe \div 100 + doy
    IN  era * 146097 + doe - 719468

\* The civil date of day number z.
CivilFromDays(z) ==
    LET zz  == z + 719468
        era == zz \div 146097
        doe == zz - era * 146097
        yoe == (doe - doe \div 1460 + doe \div 36524 - doe \div 146096) \div 365
        doy == doe - (365 * yoe + yoe \div 4 - yoe \div 100)
        mp  == (5 * doy + 2) \div 153
        d   == doy - (153 * mp + 2) \div 5 + 1
        m   == IF mp < 10 THEN mp + 3 ELSE mp - 9
        y   == yoe + era * 400 + (IF m <= 2 THEN 1 ELSE 0)
    IN  [y |-> y, m |-> m, d |-> d]

NaN  == -2     \* getTime() of an invalid Date
Null == -1     \* parseItalianDate's null

\* A date string as it appears in startDate / endDate:
\*   k = "none"  the field is undefined
\*   k = "ymd"   "YYYY-MM-DD"
\*   k = "bad"   a non-empty string Date cannot parse
NoDate  == [k |-> "none", y |-> 0, m |-> 0, d |-> 0]
BadDate == [k |-> "bad",  y |-> 0, m |-> 0, d |-> 0]
Ymd(y, m, d) == [k |-> "ymd", y |-> y, m |-> m, d |-> d]

\* JavaScript truthiness of an optional string field.
Truthy(ds) == ds.k # "none"

\* new Date(string): a date-only ISO string is read as midnight UTC.
DateFromString(ds) ==
    IF ds.k = "ymd" THEN DaysFromCivil(ds.y, ds.m, ds.d) * HoursPerDay ELSE NaN

\* new Date(year, monthIndex, day): midnight local time; day overflows roll.
DateFromLocal(year, monthIndex, day, off) ==
    (DaysFromCivil(year, monthIndex + 1, 1) + day - 1) * HoursPerDay - off

\* The local calendar date of an instant (getFullYear/getMonth/getDate).
LocalCivil(t, off) == CivilFromDays((t + off) \div HoursPerDay)

\* date.toISOString().split("T")[0]: the UTC calendar date, as a string.
ToISODate(t) ==
    LET c == CivilFromDays(t \div HoursPerDay) IN Ymd(c.y, c.m, c.d)

\* const today = new Date(); today.setHours(0, 0, 0, 0)
StartOfToday(n, off) == ((n + off) \div HoursPerDay) * HoursPerDay - off

-----------------------------------------------------------------------------
(* Character strings.                                                      *)

LowerChar(c) ==
    CASE c = "A" -> "a"
      [] c = "B" -> "b"
      [] c = "C" -> "c"
      [] OTHER   -> c

ToLowerCase(s) == [i \in 1..Len(s) |-> LowerChar(s[i])]

RECURSIVE TrimStart(_)
TrimStart(s) ==
    IF s # <<>> /\ Head(s) = " " THEN TrimStart(Tail(s)) ELSE s

RECURSIVE TrimEnd(_)
TrimEnd(s) ==
    IF s # <<>> /\ s[Len(s)] = " " THEN TrimEnd(SubSeq(s, 1, Len(s) - 1)) ELSE s

Trim(s) == TrimEnd(TrimStart(s))

DigitChar(n) ==
    CASE n = 0 -> "0" [] n = 1 -> "1" [] n = 2 -> "2" [] n = 3 -> "3"
      [] n = 4 -> "4" [] n = 5 -> "5" [] n = 6 -> "6" [] n = 7 -> "7"
      [] n = 8 -> "8" [] n = 9 -> "9"

\* String(n) for a non-negative integer.
RECURSIVE NumToString(_)
NumToString(n) ==
    IF n < 10 THEN <<DigitChar(n)>>
    ELSE NumToString(n \div 10) \o <<DigitChar(n % 10)>>

-----------------------------------------------------------------------------
(* Date text: tokens.                                                      *)

Num(v)  == [t |-> "num",  v |-> v, s |-> ""]
Word(s) == [t |-> "word", v |-> 0, s |-> s]
Dash    == [t |-> "dash", v |-> 0, s |-> ""]

MonthNames ==
    <<"gennaio", "febbraio", "marzo", "aprile", "maggio", "giugno", "luglio",
      "agosto", "settembre", "ottobre", "novembre", "dicembre">>

CapitalizedMonthNames ==
    <<"Gennaio", "Febbraio", "Marzo", "Aprile", "Maggio", "Giugno", "Luglio",
      "Agosto", "Settembre", "Ottobre", "Novembre", "Dicembre">>

\* word.toLowerCase(), over the words the date texts are made of.
LowerWord(s) ==
    CASE \E i \in 1..12 : CapitalizedMonthNames[i] = s ->
             MonthNames[CHOOSE i \in 1..12 : CapitalizedMonthNames[i] = s]
      [] s = "NOVEMBRE" -> "novembre"
      [] s = "Dal"      -> "dal"
      [] OTHER          -> s

\* monthMap[name]; -1 stands for undefined.  monthMap is an object
\* literal, so a name it inherits from Object.prototype ("constructor" is
\* the one made of lowercase letters) yields a function, which is neither
\* undefined nor a number: NaN as a month index.
monthMap(name) ==
    IF \E i \in 1..12 : MonthNames[i] = name
    THEN (CHOOSE i \in 1..12 : MonthNames[i] = name) - 1
    ELSE IF name = "constructor" THEN NaN
    ELSE -1

\* /(\d{1,2})\s+([a-zà-ù]+)\s+(\d{4})/ matched at token i of the lowercased
\* text: one or two digits ending a number, a word, a four-digit number.
FullDateAt(toks, i) ==
    /\ i + 2 <= Len(toks)
    /\ toks[i].t = "num"
    /\ toks[i + 1].t = "word"
    /\ toks[i + 2].t = "num" /\ toks[i + 2].v >= 1000 /\ toks[i + 2].v <= 9999

\* [...normalized.matchAll(datePattern)]: the start tokens of the successive
\* non-overlapping matches, left to right.
RECURSIVE FullDateMatches(_, _)
FullDateMatches(toks, i) ==
    IF i > Len(toks) THEN <<>>
    ELSE IF FullDateAt(toks, i) THEN <<i>> \o FullDateMatches(toks, i + 3)
    ELSE FullDateMatches(toks, i + 1)

parseItalianDate(dateStr, off) ==
    LET normalized == [i \in 1..Len(dateStr) |->
                         [dateStr[i] EXCEPT !.s = LowerWord(dateStr[i].s)]]
        matches    == FullDateMatches(normalized, 1)
    IN  IF Len(matches) = 0 THEN Null
        ELSE LET at    == matches[Len(matches)]
                 day   == normalized[at].v % 100
                 month == monthMap(normalized[at + 1].s)
                 year  == normalized[at + 2].v
             IN  IF month = -1 THEN Null
                 ELSE IF month = NaN THEN NaN
                 ELSE DateFromLocal(year, month, day, off)

-----------------------------------------------------------------------------
(* helpers.ts                                                              *)

\* A (partial) FestivalData object.  fields is the set of keys the object
\* defines; an undefined startDate/endDate is NoDate, an undefined location
\* has k = "none", undefined dates is the empty sequence with "dates" not in
\* fields.
isFestivalPast(festivalData, n, off) ==
    LET today     == StartOfToday(n, off)
        endDate   == DateFromString(festivalData.endDate)
        startDate == DateFromString(festivalData.startDate)
        dates     == festivalData.dates
    IN  IF Truthy(festivalData.endDate) /\ endDate # NaN
        THEN endDate < today
        ELSE IF Truthy(festivalData.startDate) /\ startDate # NaN
        THEN startDate < today
        ELSE IF "dates" \in festivalData.fields /\ Len(dates) > 0
        THEN ~ \E i \in 1..Len(dates) :
                   LET parsedDate == parseItalianDate(dates[i], off)
                   IN  parsedDate # Null /\ parsedDate >= today
        ELSE FALSE

\* `${date.getMonth()}-${date.getFullYear()}`
MonthYearKey(t, off) ==
    LET c == LocalCivil(t, off)
    IN  NumToString(c.m - 1) \o <<"-">> \o NumToString(c.y)

generateFestivalKey(festivalData, off) ==
    LET normalizedTitle == Trim(ToLowerCase(festivalData.title))
        locationStr ==
            IF festivalData.location.k \in {"str", "obj"}
            THEN Trim(ToLowerCase(festivalData.location.s))
            ELSE <<>>
        dateKey ==
            IF Truthy(festivalData.startDate)
            THEN LET date == DateFromString(festivalData.startDate)
                 IN  IF date # NaN THEN MonthYearKey(date, off) ELSE <<>>
            ELSE IF "dates" \in festivalData.fields
                    /\ Len(festivalData.dates) > 0
            THEN LET parsedDate == parseItalianDate(festivalData.dates[1], off)
                 IN  IF parsedDate # Null THEN MonthYearKey(parsedDate, off)
                     ELSE <<>>
            ELSE <<>>
    IN  normalizedTitle \o <<"|">> \o locationStr \o <<"|">> \o dateKey

\* isDuplicate: the value returned and the Set afterwards.
\* isDuplicate without the seenFestivals.add(key).
isDuplicateNoAdd(seen, festivalData, off) ==
    [result |-> generateFestivalKey(festivalData, off) \in seen,
     seen |-> seen]

isDuplicate(seen, festivalData, off) ==
    LET key == generateFestivalKey(festivalData, off)
    IN  IF key \in seen
        THEN [result |-> TRUE,  seen |-> seen]
        ELSE [result |-> FALSE, seen |-> seen \cup {key}]

clearDuplicateCacheKeeps(seen) == seen

clearDuplicateCache(seen) == {}


-----------------------------------------------------------------------------
(* The per-source date parsers.                                            *)

SeqMin(q) == CHOOSE x \in {q[i] : i \in 1..Len(q)} :
                 \A j \in 1..Len(q) : x <= q[j]
SeqMax(q) == CHOOSE x \in {q[i] : i \in 1..Len(q)} :
                 \A j \in 1..Len(q) : x >= q[j]

\* REGEX_PATTERNS.YEAR /\b(20\d{2})\b/
IsYearToken(tok) == tok.t = "num" /\ tok.v >= 2000 /\ tok.v <= 2099
\* REGEX_PATTERNS.ITALIAN_MONTH (case-insensitive)
IsMonthToken(tok) == tok.t = "word" /\ monthMap(LowerWord(tok.s)) \in 0..11
\* \b(\d{1,2})\b: a number of one or two digits
IsDayToken(tok) == tok.t = "num" /\ tok.v <= 99

\* The indices of the tokens each pattern matches, in order.
Indices(toks) == [i \in 1..Len(toks) |-> i]
YearIndices(toks)  == SelectSeq(Indices(toks), LAMBDA i : IsYearToken(toks[i]))
MonthIndices(toks) == SelectSeq(Indices(toks), LAMBDA i : IsMonthToken(toks[i]))
DayIndices(toks)   == SelectSeq(Indices(toks), LAMBDA i : IsDayToken(toks[i]))

\* new Date().getFullYear()
CurrentYear(n, off) == LocalCivil(n, off).y

\* `${day} ${month} ${year}` handed to parseItalianDate, then
\* toISOString().split("T")[0]; undefined when the parse gives null.
ISOOfItalian(day, month, year, off) ==
    LET date == parseItalianDate(<<Num(day), Word(month), Num(year)>>, off)
    IN  IF date = Null THEN NoDate
        ELSE IF date = NaN THEN BadDate   \* toISOString raises a RangeError
        ELSE ToISODate(date)

NoDates == [startDate |-> NoDate, endDate |-> NoDate]

\* The index of the first token that is the word w (text.indexOf(w)).
IndexOfWord(toks, w) ==
    CHOOSE i \in 1..Len(toks) :
        /\ toks[i].t = "word" /\ toks[i].s = w
        /\ \A j \in 1..(i - 1) : ~(toks[j].t = "word" /\ toks[j].s = w)

\* Several months: the start day is the first day number before the second
\* month, the end day the largest day number after the first month.
SagraMonthRange(toks, dayAt, firstDay, lastDay, firstMonth, lastMonth, firstMonthIndex, secondMonthIndex, year, off) ==
    LET daysBeforeSecondMonth ==
            SelectSeq(dayAt, LAMBDA i : i < secondMonthIndex)
        daysAfterFirstMonth ==
            SelectSeq(dayAt, LAMBDA i : i > firstMonthIndex)
        startDay ==
            IF Len(daysBeforeSecondMonth) > 0
            THEN toks[daysBeforeSecondMonth[1]].v
            ELSE firstDay
        endDay ==
            IF Len(daysAfterFirstMonth) > 0
            THEN SeqMax([i \in 1..Len(daysAfterFirstMonth) |->
                            toks[daysAfterFirstMonth[i]].v])
            ELSE lastDay
    IN  [startDate |-> ISOOfItalian(startDay, firstMonth, year, off),
         endDate   |-> ISOOfItalian(endDay, lastMonth, year, off)]

SagraDates(toks, months, dayAt, allDays, year, off) ==
    IF Len(months) > 0 /\ Len(dayAt) > 0
    THEN IF Len(months) = 1
         THEN [startDate |-> ISOOfItalian(SeqMin(allDays),
                                          toks[months[1]].s, year, off),
               endDate   |-> ISOOfItalian(SeqMax(allDays),
                                          toks[months[1]].s, year, off)]
         ELSE SagraMonthRange(toks, dayAt, SeqMin(allDays), SeqMax(allDays),
                  toks[months[1]].s, toks[months[Len(months)]].s,
                  IndexOfWord(toks, toks[months[1]].s),
                  IndexOfWord(toks, toks[months[Len(months)]].s),
                  year, off)
    ELSE NoDates

\* The year the text names, or the current year.
SagraYear(toks, yearMatch, n, off) ==
    IF yearMatch # <<>> THEN toks[yearMatch[1]].v ELSE CurrentYear(n, off)

\* The values of the tokens at the indices dayAt.
DayValues(toks, dayAt) == [i \in 1..Len(dayAt) |-> toks[dayAt[i]].v]

parseSagradateText(sagradateText, n, off) ==
    IF sagradateText = <<>> THEN NoDates
    ELSE SagraDates(sagradateText,
                    MonthIndices(sagradateText),
                    DayIndices(sagradateText),
                    DayValues(sagradateText,
                              DayIndices(sagradateText)),
                    SagraYear(sagradateText,
                              YearIndices(sagradateText), n, off),
                    off)

\* Words the character class [-al]+ swallows whole.
SeparatorWords == {"al", "a", "la", "alla"}

IsFourDigits(tok) == tok.t = "num" /\ tok.v >= 1000 /\ tok.v <= 9999

\* The first one or two digits of a number.
RECURSIVE LeadingTwoDigits(_)
LeadingTwoDigits(v) == IF v <= 99 THEN v ELSE LeadingTwoDigits(v \div 10)

\* One match of the period pattern
\*   (\d{1,2})\s+(word)(?:\s+(\d{4}))?(?:\s*[-al]+\s*)?(\d{1,2})?\s*(word)?\s*(\d{4})?
\* starting at token i; needDash makes the separator a mandatory "-" (the
\* range pattern).  Unmatched groups: g3 = g6 = 0, g4 = -1, g5 = "".
IsSeparator(tok, needDash) ==
    \/ tok.t = "dash"
    \/ ~needDash /\ tok.t = "word" /\ LowerWord(tok.s) \in SeparatorWords

IsWordAt(toks, j) == j <= Len(toks) /\ toks[j].t = "word"
IsNumAt(toks, j)  == j <= Len(toks) /\ toks[j].t = "num"
IsYearAt(toks, j) == j <= Len(toks) /\ IsFourDigits(toks[j])
IsSepAt(toks, j, needDash) == j <= Len(toks) /\ IsSeparator(toks[j], needDash)

Skip(j, matched) == IF matched THEN j + 1 ELSE j

\* Groups 5 and 6, once groups 1 to 4 are placed.
PeriodGroups(toks, i, needDash, ok, has3, hasS, has4, j5, j6, has5, j7) ==
    LET has6 == (~has4 \/ toks[j5].v <= 99) /\ IsYearAt(toks, j7)
    IN  [ok |-> ok /\ (needDash => (hasS /\ has4)),
         g1 |-> IF ok THEN toks[i].v % 100 ELSE -1,
         g2 |-> IF ok THEN toks[i + 1].s ELSE "",
         g3 |-> IF ok /\ has3 THEN toks[i + 2].v ELSE 0,
         g4 |-> IF ok /\ has4 THEN LeadingTwoDigits(toks[j5].v) ELSE -1,
         g5 |-> IF ok /\ has5 THEN toks[j6].s ELSE "",
         g6 |-> IF ok /\ has6 THEN toks[j7].v ELSE 0,
         next |-> Skip(j7, has6)]

\* Group 4 and what follows it, once the separator is placed.
PeriodSecondHalf(toks, i, needDash, ok, has3, hasS, j5, has4, j6) ==
    PeriodGroups(toks, i, needDash, ok, has3, hasS, has4, j5, j6,
                 (~has4 \/ toks[j5].v <= 99) /\ IsWordAt(toks, j6),
                 Skip(j6, (~has4 \/ toks[j5].v <= 99) /\ IsWordAt(toks, j6)))

PeriodFirstHalf(toks, i, needDash, ok, has3, j4, hasS) ==
    PeriodSecondHalf(toks, i, needDash, ok, has3, hasS, Skip(j4, hasS),
                     IsNumAt(toks, Skip(j4, hasS)),
                     Skip(Skip(j4, hasS), IsNumAt(toks, Skip(j4, hasS))))

PeriodMatchAt(toks, i, needDash) ==
    PeriodFirstHalf(toks, i, needDash,
                    IsNumAt(toks, i) /\ IsWordAt(toks, i + 1),
                    IsYearAt(toks, i + 2),
                    Skip(i + 2, IsYearAt(toks, i + 2)),
                    IsSepAt(toks, Skip(i + 2, IsYearAt(toks, i + 2)),
                            needDash))

\* [...cleanText.matchAll(datePattern)]
RECURSIVE PeriodMatches(_, _)
PeriodMatches(toks, i) ==
    IF i > Len(toks) THEN <<>>
    ELSE LET m == PeriodMatchAt(toks, i, FALSE)
         IN  IF m.ok THEN <<m>> \o PeriodMatches(toks, m.next)
             ELSE PeriodMatches(toks, i + 1)

\* periodText.match(rangePattern): the first match, or ok = FALSE.
RECURSIVE RangeMatch(_, _)
RangeMatch(toks, i) ==
    IF i > Len(toks) THEN PeriodMatchAt(toks, i, TRUE)
    ELSE LET m == PeriodMatchAt(toks, i, TRUE)
         IN  IF m.ok THEN m ELSE RangeMatch(toks, i + 1)

\* periodText.replace(/^Dal\s+/i, "").replace(/\s+al\s+/i, " - ").trim()
CleanPeriodText(periodText) ==
    LET noDal == IF Len(periodText) > 1 /\ periodText[1].t = "word"
                    /\ LowerWord(periodText[1].s) = "dal"
                 THEN Tail(periodText) ELSE periodText
        IsAl(j) == /\ j > 1 /\ j < Len(noDal)
                   /\ noDal[j].t = "word" /\ LowerWord(noDal[j].s) = "al"
    IN  IF \E j \in 1..Len(noDal) : IsAl(j)
        THEN LET at == CHOOSE j \in 1..Len(noDal) :
                           IsAl(j) /\ \A h \in 1..(j - 1) : ~IsAl(h)
             IN  [noDal EXCEPT ![at] = Dash]
        ELSE noDal

\* a || b on numbers (0 is falsy)
OrElse(a, b) == IF a # 0 THEN a ELSE b

\* One match: the festival lasts a single day.
PeriodSingle(match, currentYear, off) ==
    LET date == ISOOfItalian(match.g1, match.g2,
                             OrElse(match.g3, currentYear), off)
    IN  [startDate |-> date, endDate |-> date]

\* Several matches: first and last, the range pattern taking over the end
\* when both fall in the same month.
PeriodSeveral(firstMatch, lastMatch, rangeMatch, currentYear, off) ==
    LET startMonth == firstMatch.g2
        endDay0    == IF lastMatch.g4 # -1 THEN lastMatch.g4 ELSE lastMatch.g1
        endMonth0  == IF lastMatch.g5 # "" THEN lastMatch.g5 ELSE lastMatch.g2
        endYear0   == OrElse(lastMatch.g6, OrElse(lastMatch.g3, currentYear))
        useRange   == endMonth0 = startMonth /\ rangeMatch.ok
        endDay     == IF useRange THEN rangeMatch.g4 ELSE endDay0
        endMonth   == IF useRange
                      THEN (IF rangeMatch.g5 # "" THEN rangeMatch.g5
                            ELSE rangeMatch.g2)
                      ELSE endMonth0
        endYear    == IF useRange
                      THEN OrElse(rangeMatch.g6,
                                  OrElse(rangeMatch.g3, currentYear))
                      ELSE endYear0
    IN  [startDate |-> ISOOfItalian(firstMatch.g1, startMonth,
                                    OrElse(firstMatch.g3, currentYear), off),
         endDate   |-> ISOOfItalian(endDay, endMonth, endYear, off)]

PeriodDates(matches, rangeMatch, currentYear, off) ==
    IF Len(matches) = 0 THEN NoDates
    ELSE IF Len(matches) = 1
    THEN PeriodSingle(matches[1], currentYear, off)
    ELSE PeriodSeveral(matches[1], matches[Len(matches)], rangeMatch,
                       currentYear, off)

parseViviromagnaPeriod(periodText, n, off) ==
    IF periodText = <<>> THEN NoDates
    ELSE PeriodDates(PeriodMatches(CleanPeriodText(periodText), 1),
                     RangeMatch(periodText, 1), CurrentYear(n, off), off)

-----------------------------------------------------------------------------
(* Input domains.                                                          *)

\* The process runs on the local calendar day 2025-11-01, at one of
\* NowHours o'clock local time, in one of the time zones TZOffsets.
TodayCivil == Ymd(2025, 11, 1)
NowHours   == {1, 22}
TZOffsets  == {-5, 0, 1}

ClockAt(h, off) ==
    DaysFromCivil(TodayCivil.y, TodayCivil.m, TodayCivil.d) * HoursPerDay
        + h - off

\* The day number of the local calendar day the clock shows.
LocalToday == (now + tzOffset) \div HoursPerDay

Yesterday == Ymd(2025, 10, 31)
Today     == Ymd(2025, 11, 1)
Tomorrow  == Ymd(2025, 11, 2)
DateStrings == {NoDate, BadDate, Yesterday, Today, Tomorrow}

FragPast     == <<Num(31), Word("Ottobre"), Num(2025)>>
FragToday    == <<Num(1), Word("Novembre"), Num(2025)>>
FragFuture   == <<Num(1), Dash, Num(2), Word("NOVEMBRE"), Num(2025)>>
FragNextMonth == <<Num(6), Word("Dicembre"), Num(2025)>>
FragNoYear   == <<Num(2), Word("novembre")>>
FragFreeText == <<Word("ogni"), Word("weekend")>>

NoLocation     == [k |-> "none", s |-> <<>>, geo |-> FALSE]
LocString(s)   == [k |-> "str", s |-> s, geo |-> FALSE]
LocPlace(s, g) == [k |-> "obj", s |-> s, geo |-> g]

\* structuredData: absent (k = "none"), a JSON-LD Event (k = "event"), or the
\* object a handler synthesizes around map coordinates (k = "geo").
NoStructuredData ==
    [k |-> "none", startDate |-> NoDate, endDate |-> NoDate,
     location |-> NoLocation]

Url(host, path) == [host |-> host, path |-> path]
NoUrl == Url("", "")

\* A Partial<FestivalData> as the helpers' callers build it.
PartialFestival(url, title, location, startDate, endDate, hasDates, dates) ==
    [url |-> url, title |-> title, source |-> "",
     fields |-> {"url", "title"} \cup (IF hasDates THEN {"dates"} ELSE {}),
     startDate |-> startDate, endDate |-> endDate,
     dates |-> dates, location |-> location,
     structuredData |-> NoStructuredData]

NoFestival ==
    PartialFestival(NoUrl, <<>>, NoLocation, NoDate, NoDate, FALSE, <<>>)

NoRet == [op |-> "none", value |-> FALSE, keyA |-> <<>>, keyB |-> <<>>,
          cleared |-> {}]

\* The cleanup script as long as it is not run.
NoCleanup ==
    [pc |-> "none", dryRun |-> FALSE, store |-> <<>>, past |-> <<>>, i |-> 0,
     result |-> [total |-> 0, deleted |-> 0, failed |-> 0, festivals |-> <<>>],
     deletes |-> <<>>]

\* The crawl engine before any page has been fetched.
NoCrawl ==
    /\ env = [ENABLE_STRAPI_UPLOAD |-> FALSE, STRAPI_URL |-> FALSE,
              GEOAPIFY_API_KEY |-> FALSE]
    /\ pages = <<>>
    /\ status = <<>>
    /\ step = <<>>
    /\ candidate = <<>>
    /\ trace = <<>>
    /\ retries = <<>>
    /\ running = 0
    /\ dataset = <<>>
    /\ invalidPages = {}
    /\ afterInvalid = {}

-----------------------------------------------------------------------------
(* Unit harness for isFestivalPast.                                        *)

PastDates ==
    {<<>>, <<FragPast>>, <<FragToday>>, <<FragFreeText>>, <<FragNoYear>>,
     <<FragPast, FragFuture>>, <<FragFreeText, FragPast>>,
     <<FragNextMonth, FragPast>>}

PastInputs ==
    {PartialFestival(NoUrl, <<"A">>, NoLocation, sd, ed, TRUE, ds) :
        sd \in DateStrings, ed \in DateStrings, ds \in PastDates}
    \cup {PartialFestival(NoUrl, <<"A">>, NoLocation, NoDate, NoDate, FALSE, <<>>)}

InitPast ==
    /\ tzOffset \in TZOffsets
    /\ \E h \in NowHours : now = ClockAt(h, tzOffset)
    /\ seenFestivals = {}
    /\ argA \in PastInputs
    /\ argB = NoFestival
    /\ ret = NoRet
    /\ calls = <<>>
    /\ NoCrawl
    /\ cleanup = NoCleanup

CallIsFestivalPast ==
    /\ ret.op = "none"
    /\ ret' = [NoRet EXCEPT !.op = "isFestivalPast",
                            !.value = isFestivalPast(argA, now, tzOffset)]
    /\ UNCHANGED <<now, tzOffset, seenFestivals, argA, argB, calls, crawlVars>>

NextPast == CallIsFestivalPast

SpecPast == InitPast /\ [][NextPast]_vars

-----------------------------------------------------------------------------
(* Unit harness for generateFestivalKey.                                   *)

KeyTitles    == {<<"A">>, <<" ", "a">>, <<"B">>}
KeyLocations == {NoLocation, LocString(<<"C", " ">>), LocPlace(<<"c">>, FALSE),
                 LocString(<<"b">>)}
KeyUrls      == {Url("www.sagreinromagna.it", "/sagre/1"),
                 Url("www.sagreinemilia.it", "/sagre/2")}
KeyDates     == {<<>>, <<FragFuture>>, <<FragNextMonth, FragToday>>}
KeyStarts    == {NoDate, BadDate, Today, Tomorrow}

KeyInputs ==
    {PartialFestival(u, t, l, sd, NoDate, TRUE, ds) :
        u \in KeyUrls, t \in KeyTitles, l \in KeyLocations,
        sd \in KeyStarts, ds \in KeyDates}

InitKey ==
    /\ tzOffset \in TZOffsets
    /\ now = ClockAt(1, tzOffset)
    /\ seenFestivals = {}
    /\ argA \in KeyInputs
    /\ argB \in {f \in KeyInputs : f.url # argA.url}
    /\ ret = NoRet
    /\ calls = <<>>
    /\ NoCrawl
    /\ cleanup = NoCleanup

CallGenerateFestivalKey ==
    /\ ret.op = "none"
    /\ ret' = [NoRet EXCEPT !.op = "generateFestivalKey",
                            !.keyA = generateFestivalKey(argA, tzOffset),
                            !.keyB = generateFestivalKey(argB, tzOffset)]
    /\ UNCHANGED <<now, tzOffset, seenFestivals, argA, argB, calls, crawlVars>>

NextKey == CallGenerateFestivalKey

SpecKey == InitKey /\ [][NextKey]_vars

-----------------------------------------------------------------------------
(* Unit harness for isDuplicate / clearDuplicateCache.                     *)

MaxCalls == 3

DupInputs ==
    {PartialFestival(u, t, NoLocation, sd, NoDate, TRUE, <<>>) :
        u \in KeyUrls, t \in KeyTitles, sd \in {Today, BadDate}}

InitDup ==
    /\ tzOffset \in {0, 1}
    /\ now = ClockAt(1, tzOffset)
    /\ seenFestivals = {}
    /\ argA = NoFestival
    /\ argB = NoFestival
    /\ ret = NoRet
    /\ calls = <<>>
    /\ NoCrawl
    /\ cleanup = NoCleanup

CallIsDuplicate(f) ==
    /\ Len(calls) < MaxCalls
    /\ LET r == isDuplicate(seenFestivals, f, tzOffset)
       IN  /\ seenFestivals' = r.seen
           /\ ret' = [ret EXCEPT !.op = "isDuplicate", !.value = r.result]
           /\ calls' = Append(calls,
                  [key |-> generateFestivalKey(f, tzOffset),
                   url |-> f.url, result |-> r.result])
    /\ argA' = f
    /\ UNCHANGED <<now, tzOffset, argB, crawlVars>>

CallClearDuplicateCache ==
    /\ calls # <<>>
    /\ seenFestivals' = clearDuplicateCache(seenFestivals)
    /\ ret' = [ret EXCEPT !.op = "clearDuplicateCache",
                          !.cleared = {calls[i].key : i \in 1..Len(calls)}]
    /\ calls' = <<>>
    /\ UNCHANGED <<now, tzOffset, argA, argB, crawlVars>>

NextDup ==
    \/ \E f \in DupInputs : CallIsDuplicate(f)
    \/ CallClearDuplicateCache

SpecDup == InitDup /\ [][NextDup]_vars


-----------------------------------------------------------------------------
(* The crawl: configuration.                                               *)

NumPages == 2
Pages == 1..NumPages

\* main.ts: new CheerioCrawler({...})
maxConcurrency    == 2
maxRequestRetries == 3

\* constants.ts: WEBSITE_CONFIG (the entries the handlers read).
WEBSITE_CONFIG ==
    [ROMAGNA_EMILIA |-> [SOURCE_MAPPING |->
                            {"sagreinromagna.it", "sagreinemilia.it"}],
     ASSOSAGRE      |-> [SOURCE |-> "assosagre.it"]]

\* WEBSITE_CONFIG.VIVIROMAGNA.SOURCE: the site identifier of the
\* viviromagna parser (the record's source is always present).
VIVIROMAGNA_SOURCE == "viviromagna.it"

\* schemas.ts: FestivalDataSchema.source
SourceEnum == {"sagreinromagna.it", "sagreinemilia.it", "assosagre.it"}

\* schemas.ts: the keys of FestivalDataSchema that are not .optional()
RequiredKeys ==
    {"url", "title", "scrapedAt", "source", "metaDescription", "ogImage",
     "ogTitle", "dates", "province", "images", "paragraphs", "fullText",
     "categories", "schedule", "prices"}

\* FestivalDataSchema.safeParse(festivalData).success
FestivalDataSchema(festivalData) ==
    /\ RequiredKeys \subseteq festivalData.fields
    /\ festivalData.url.host # ""
    /\ festivalData.source \in SourceEnum

\* process.env as the handlers read it at module load.
EnvConfigs ==
    {[ENABLE_STRAPI_UPLOAD |-> TRUE,  STRAPI_URL |-> TRUE,
      GEOAPIFY_API_KEY |-> TRUE],
     [ENABLE_STRAPI_UPLOAD |-> FALSE, STRAPI_URL |-> FALSE,
      GEOAPIFY_API_KEY |-> FALSE]}

-----------------------------------------------------------------------------
(* The crawl: pages.                                                       *)

Sites == {"sagreinromagna", "sagreinemilia", "assosagre", "viviromagna"}

HostOf(site) ==
    CASE site = "sagreinromagna" -> "www.sagreinromagna.it"
      [] site = "sagreinemilia"  -> "www.sagreinemilia.it"
      [] site = "assosagre"      -> "www.assosagre.it"
      [] site = "viviromagna"    -> "www.viviromagna.it"

\* The route label the page was enqueued with.
LabelOf(site) ==
    CASE site \in {"sagreinromagna", "sagreinemilia"}
                                 -> "romagna-emilia-festival-detail"
      [] site = "assosagre"      -> "assosagre-detail"
      [] site = "viviromagna"    -> "viviromagna-detail"

PagePaths == <<"/sagre/1", "/sagre/2", "/sagre/3", "/sagre/4", "/sagre/5">>

NoJsonLd == [k |-> "none", startDate |-> NoDate, endDate |-> NoDate,
             location |-> NoLocation]
JsonLdEvent(sd, ed, loc) ==
    [k |-> "event", startDate |-> sd, endDate |-> ed, location |-> loc]
MalformedJsonLd == [NoJsonLd EXCEPT !.k = "malformed"]

\* What a fetched detail page holds, as far as the handlers look:
\*   title     the text the handler's title strategy finds ("" if none)
\*   jsonld    the JSON-LD script of the page
\*   dateText  the raw date fragments (one per matching element)
\*   locText   the location text
\*   coords    whether a map link / data attributes carry coordinates
Page(site, title, jsonld, dateText, locText, coords) ==
    [site |-> site, title |-> title, jsonld |-> jsonld,
     dateText |-> dateText, locText |-> locText, coords |-> coords]

PageShapes ==
    { \* a coming festival with JSON-LD
      Page("sagreinromagna", <<"A">>,
           JsonLdEvent(Tomorrow, Tomorrow, NoLocation), <<>>, <<"C">>, FALSE),
      \* the same festival on the sister site, dates in the HTML only
      Page("sagreinemilia", <<" ", "a">>, NoJsonLd, <<FragFuture>>,
           <<"c", " ">>, FALSE),
      \* a page whose JSON-LD script is not valid JSON
      Page("sagreinromagna", <<"B">>, MalformedJsonLd, <<>>, <<>>, FALSE),
      \* a festival that ended yesterday
      Page("assosagre", <<"B">>, NoJsonLd, <<FragPast>>, <<"C">>, TRUE),
      \* a coming festival with map coordinates
      Page("assosagre", <<"A">>, NoJsonLd, <<FragNextMonth>>, <<"C">>, TRUE),
      \* a festival whose date text is free text
      Page("assosagre", <<"B">>, NoJsonLd, <<FragFreeText>>, <<"b">>, FALSE),
      \* a viviromagna page without a period block
      Page("viviromagna", <<"B">>, NoJsonLd, <<>>, <<"b">>, FALSE),
      \* a viviromagna page without a title
      Page("viviromagna", <<>>, NoJsonLd, <<FragFuture>>, <<>>, FALSE) }

\* The object literal a handler starts from.
EmptyCandidate ==
    [url |-> NoUrl, title |-> <<>>, source |-> "", fields |-> {},
     startDate |-> NoDate, endDate |-> NoDate, dates |-> <<>>,
     location |-> NoLocation, structuredData |-> NoStructuredData]

-----------------------------------------------------------------------------
(* The crawl: the detail handlers.                                         *)

\* The assosagre handler with the duplicate check moved ahead of the
\* temporal filter.
DetailProgramReordered(label) ==
    CASE label = "romagna-emilia-festival-detail" ->
             <<"title", "jsonld", "init", "dates", "rest",
               "temporal", "duplicate", "validate">>
      [] label = "assosagre-detail" ->
             <<"title", "init", "dates", "rest", "duplicate",
               "temporal", "validate">>
      [] label = "viviromagna-detail" ->
             <<"title", "init", "dates", "temporal", "rest",
               "duplicate", "validate">>

\* The statements of each detail handler up to its first await, in source
\* order.
DetailProgram(label) ==
    CASE label = "romagna-emilia-festival-detail" ->
             <<"title", "jsonld", "init", "dates", "rest",
               "temporal", "duplicate", "validate">>
      [] label = "assosagre-detail" ->
             <<"title", "init", "dates", "temporal", "rest",
               "duplicate", "validate">>
      [] label = "viviromagna-detail" ->
             <<"title", "init", "dates", "temporal", "rest",
               "duplicate", "validate">>

InFlight(p) == status[p] \in {"running", "pushing", "geocoding", "uploading"}

At(p, name) ==
    /\ running = p
    /\ status[p] = "running"
    /\ DetailProgram(LabelOf(pages[p].site))[step[p]] = name

Advance(p) == step' = [step EXCEPT ![p] = @ + 1]

Log(p, events) == trace' = [trace EXCEPT ![p] = @ \o events]

\* The handler returns: the engine marks the request handled.
Return(p) ==
    /\ status' = [status EXCEPT ![p] = "done"]
    /\ running' = 0
    /\ UNCHANGED <<step, retries>>

\* The handler throws: the engine reclaims the request for a retry, or
\* marks it failed once maxRequestRetries retries are used up.
Throw(p) ==
    /\ IF retries[p] < maxRequestRetries
       THEN /\ status' = [status EXCEPT ![p] = "queued"]
            /\ retries' = [retries EXCEPT ![p] = @ + 1]
       ELSE /\ status' = [status EXCEPT ![p] = "failed"]
            /\ UNCHANGED retries
    /\ running' = 0
    /\ UNCHANGED step

\* The engine takes a request from the queue and invokes its handler.
Start(p) ==
    /\ running = 0
    /\ status[p] = "queued"
    /\ Cardinality({q \in Pages : InFlight(q)}) < maxConcurrency
    /\ status' = [status EXCEPT ![p] = "running"]
    /\ step' = [step EXCEPT ![p] = 1]
    /\ running' = p
    /\ candidate' = [candidate EXCEPT ![p] = EmptyCandidate]
    /\ trace' = [trace EXCEPT ![p] = <<>>]
    /\ afterInvalid' = IF invalidPages # {} THEN afterInvalid \cup {p}
                       ELSE afterInvalid \ {p}
    /\ UNCHANGED <<clockVars, harnessVars, env, pages, retries, dataset,
                   seenFestivals, invalidPages>>

\* const title = ...; viviromagna returns when it is empty.
ExtractTitle(p) ==
    /\ At(p, "title")
    /\ LET title == pages[p].title
       IN  IF LabelOf(pages[p].site) = "viviromagna-detail" /\ title = <<>>
           THEN /\ Log(p, <<"no_title">>)
                /\ Return(p)
                /\ UNCHANGED candidate
           ELSE /\ candidate' = [candidate EXCEPT ![p].title = title]
                /\ Advance(p)
                /\ UNCHANGED <<status, running, retries, trace>>
    /\ UNCHANGED <<clockVars, harnessVars, env, pages, dataset,
                   seenFestivals, invalidPages, afterInvalid>>

\* romagna-emilia: the JSON-LD scripts; JSON.parse is not guarded.
ParseJsonLd(p) ==
    /\ At(p, "jsonld")
    /\ LET jsonld == pages[p].jsonld
       IN  IF jsonld.k = "malformed"
           THEN /\ Log(p, <<"json_error">>)
                /\ Throw(p)
                /\ UNCHANGED candidate
           ELSE /\ candidate' =
                      [candidate EXCEPT ![p].structuredData =
                          IF jsonld.k = "event" THEN jsonld
                          ELSE NoStructuredData]
                /\ Advance(p)
                /\ UNCHANGED <<status, running, retries, trace>>
    /\ UNCHANGED <<clockVars, harnessVars, env, pages, dataset,
                   seenFestivals, invalidPages, afterInvalid>>

UrlIncludesRomagna(url) ==
    \/ url.host \in {"www.sagreinromagna.it", "www.viviromagna.it"}
    \/ url.path \in {"/sagre/festa-della-romagna"}

getSourceFromUrl(url) ==
    IF UrlIncludesRomagna(url) THEN "sagreinromagna.it" ELSE "sagreinemilia.it"

\* const festivalData = { url, title, scrapedAt, source, ... }
InitRecord(p) ==
    /\ At(p, "init")
    /\ LET label == LabelOf(pages[p].site)
           url   == Url(HostOf(pages[p].site), PagePaths[p])
           c0    == candidate[p]
           base  == [c0 EXCEPT
                       !.url = url,
                       !.source =
                           CASE label = "romagna-emilia-festival-detail"
                                    -> getSourceFromUrl(url)
                             [] label = "assosagre-detail"
                                    -> WEBSITE_CONFIG.ASSOSAGRE.SOURCE
                             [] label = "viviromagna-detail"
                                    -> VIVIROMAGNA_SOURCE,
                       !.fields = {"url", "title", "scrapedAt", "source"}]
           sd    == c0.structuredData
           text  == pages[p].dateText
       IN  candidate' = [candidate EXCEPT ![p] =
               CASE label = "romagna-emilia-festival-detail" ->
                        IF sd.k = "event"
                        THEN [base EXCEPT
                                !.startDate = sd.startDate,
                                !.endDate = sd.endDate,
                                !.location = sd.location,
                                !.fields = @ \cup {"structuredData"}]
                        ELSE base
                 [] label = "assosagre-detail" ->
                        [base EXCEPT !.dates = text,
                                     !.fields = @ \cup {"dates"}]
                 [] label = "viviromagna-detail" -> base]
    /\ Advance(p)
    /\ UNCHANGED <<clockVars, harnessVars, env, pages, status, running,
                   retries, trace, dataset, seenFestivals, invalidPages,
                   afterInvalid>>

\* Object.assign(festivalData, parsedDates): only the keys the parser set.
AssignDates(c, parsedDates) ==
    [c EXCEPT
       !.startDate = IF Truthy(parsedDates.startDate)
                     THEN parsedDates.startDate ELSE @,
       !.endDate   = IF Truthy(parsedDates.endDate)
                     THEN parsedDates.endDate ELSE @]

\* The raw date text and its normalization.
ExtractDates(p) ==
    /\ At(p, "dates")
    /\ LET label == LabelOf(pages[p].site)
           text  == pages[p].dateText
           c0    == candidate[p]
       IN  candidate' = [candidate EXCEPT ![p] =
               CASE label = "romagna-emilia-festival-detail" ->
                        [c0 EXCEPT
                           !.dates = text,
                           !.fields = @ \cup {"metaDescription", "ogImage",
                                              "ogTitle", "dates"}]
                 [] label = "assosagre-detail" ->
                        IF text # <<>>
                        THEN AssignDates(c0,
                                 parseSagradateText(text[1], now, tzOffset))
                        ELSE c0
                 [] label = "viviromagna-detail" ->
                        IF text # <<>>
                        THEN [AssignDates(c0,
                                 parseViviromagnaPeriod(text[1], now, tzOffset))
                                EXCEPT !.dates = <<text[1]>>,
                                       !.fields = @ \cup {"dates"}]
                        ELSE c0]
    /\ Advance(p)
    /\ UNCHANGED <<clockVars, harnessVars, env, pages, status, running,
                   retries, trace, dataset, seenFestivals, invalidPages,
                   afterInvalid>>

\* if (isFestivalPast(festivalData)) { log; return; }
TemporalFilter(p) ==
    /\ At(p, "temporal")
    /\ IF isFestivalPast(candidate[p], now, tzOffset)
       THEN /\ Log(p, <<"past=true">>)
            /\ Return(p)
       ELSE /\ Log(p, <<"past=false">>)
            /\ Advance(p)
            /\ UNCHANGED <<status, running, retries>>
    /\ UNCHANGED <<clockVars, harnessVars, env, pages, candidate, dataset,
                   seenFestivals, invalidPages, afterInvalid>>

\* The structured-data object built around extracted map coordinates.
GeoStructuredData(c) ==
    [k |-> "geo", startDate |-> c.startDate, endDate |-> c.endDate,
     location |-> LocPlace(c.location.s, TRUE)]

\* Location, coordinates, province, metadata, images, paragraphs, contacts,
\* social links, categories, schedule, prices and full text.
ExtractRest(p) ==
    /\ At(p, "rest")
    /\ LET label == LabelOf(pages[p].site)
           c0    == candidate[p]
           located ==
               [c0 EXCEPT
                  !.location = IF label = "romagna-emilia-festival-detail"
                                  /\ pages[p].locText = <<>>
                               THEN @
                               ELSE LocString(pages[p].locText)]
           withGeo ==
               IF label # "romagna-emilia-festival-detail" /\ pages[p].coords
               THEN [located EXCEPT
                       !.structuredData = GeoStructuredData(located),
                       !.fields = @ \cup {"structuredData"}]
               ELSE located
       IN  candidate' = [candidate EXCEPT ![p] =
               [withGeo EXCEPT !.fields = @ \cup
                   {"location", "province", "metaDescription", "ogImage",
                    "ogTitle", "images", "paragraphs", "categories",
                    "schedule", "prices", "fullText"}]]
    /\ Advance(p)
    /\ UNCHANGED <<clockVars, harnessVars, env, pages, status, running,
                   retries, trace, dataset, seenFestivals, invalidPages,
                   afterInvalid>>

\* if (isDuplicate(festivalData)) { log; return; }
DuplicateCheck(p) ==
    /\ At(p, "duplicate")
    /\ LET r == isDuplicate(seenFestivals, candidate[p], tzOffset)
       IN  /\ seenFestivals' = r.seen
           /\ IF r.result
              THEN /\ Log(p, <<"dup=true">>)
                   /\ Return(p)
              ELSE /\ Log(p, <<"dup=false">>)
                   /\ Advance(p)
                   /\ UNCHANGED <<status, running, retries>>
    /\ UNCHANGED <<clockVars, harnessVars, env, pages, candidate, dataset,
                   invalidPages, afterInvalid>>

\* A handler that goes on to the sink whatever safeParse says.
OnValidationIgnored(success) == "pushData"

\* What the handler does with the result of safeParse.
OnValidation(success) == IF success THEN "pushData" ELSE "throw"

\* const validatedData = FestivalDataSchema.safeParse(festivalData);
\* if (!validatedData.success) throw ...; await pushData(validatedData)
Validate(p) ==
    /\ At(p, "validate")
    /\ LET success == FestivalDataSchema(candidate[p])
       IN  IF OnValidation(success) = "throw"
           THEN /\ Log(p, <<"valid=false">>)
                /\ Throw(p)
                /\ invalidPages' = invalidPages \cup {p}
           ELSE /\ Log(p, <<IF success THEN "valid=true" ELSE "valid=false",
                            "pushData">>)
                /\ status' = [status EXCEPT ![p] = "pushing"]
                /\ running' = 0
                /\ UNCHANGED <<step, retries, invalidPages>>
    /\ UNCHANGED <<clockVars, harnessVars, env, pages, candidate, dataset,
                   seenFestivals, afterInvalid>>

\* strapi.ts: extractCoordinates(festivalData) !== null
extractCoordinates(festivalData) ==
    festivalData.location.k = "obj" /\ festivalData.location.geo

\* strapi.ts: geocodeLocation up to its fetch.  The guard
\* `!locationString?.trim()` stands outside the try block: it returns null
\* for undefined or a blank string and raises a TypeError for an object.
geocodeGuard(location) ==
    CASE location.k = "none" -> "null"
      [] location.k = "obj"  -> "throw"
      [] location.k = "str"  ->
             IF Trim(location.s) = <<>> THEN "null" ELSE "fetch"

\* What the geocoding request can come to.
GeocodeOutcomes ==
    {"found", "no_result", "http_error", "timeout", "network_error"}

\* strapi.ts: geocodeLocation from its fetch on, inside try/catch.
geocodeLocation(outcome) == IF outcome = "found" THEN "position" ELSE "null"

\* transformToStrapiFormat without its try/catch.
transformUncaught(geo) == IF geo = "position" THEN "payload" ELSE geo

\* strapi.ts: transformToStrapiFormat, given what came of the position
\* ("position", "null" or "throw"): the payload, or null; the catch turns
\* an exception into null.
transformToStrapiFormat(geo) == IF geo = "position" THEN "payload" ELSE "null"

\* What the upload request can come to.
UploadOutcomes == {"ok", "http_error", "network_error"}

\* strapi.ts: uploadToStrapi, all of it inside try/catch.
uploadToStrapi(outcome) == IF outcome = "ok" THEN "true" ELSE "false"

\* The position transformToStrapiFormat has before any request is made.
PositionAtStart(festivalData) ==
    IF extractCoordinates(festivalData) THEN "position"
    ELSE geocodeGuard(festivalData.location)

\* processFestivalForStrapi went as far as `outcome`: it awaits the
\* geocoder ("fetch") or the upload ("payload"), has returned a boolean
\* ("true", "false", or "null" for no payload), or has thrown into the
\* handler ("throw").
ContinueUpload(p, events, outcome) ==
    CASE outcome = "fetch" ->
             /\ Log(p, events \o <<"geocode">>)
             /\ status' = [status EXCEPT ![p] = "geocoding"]
             /\ UNCHANGED <<step, retries, running>>
      [] outcome = "payload" ->
             /\ Log(p, events \o <<"upload">>)
             /\ status' = [status EXCEPT ![p] = "uploading"]
             /\ UNCHANGED <<step, retries, running>>
      [] outcome = "true" ->
             /\ Log(p, events \o <<"upload=true">>)
             /\ status' = [status EXCEPT ![p] = "done"]
             /\ UNCHANGED <<step, retries, running>>
      [] outcome \in {"false", "null"} ->
             /\ Log(p, events \o <<"upload=false">>)
             /\ status' = [status EXCEPT ![p] = "done"]
             /\ UNCHANGED <<step, retries, running>>
      [] outcome = "throw" ->
             /\ Log(p, events \o <<"process_threw">>)
             /\ Throw(p)

\* if (ENABLE_STRAPI_UPLOAD) { if (!STRAPI_URL || !GEOAPIFY_API_KEY) warn
\* else processFestivalForStrapi(...) }
UploadConfigured(e) ==
    e.ENABLE_STRAPI_UPLOAD /\ e.STRAPI_URL /\ e.GEOAPIFY_API_KEY

\* pushData resolved: the item is stored and the handler goes on to the
\* upload, up to its next await.
PushResolves(p) ==
    /\ running = 0
    /\ status[p] = "pushing"
    /\ dataset' = Append(dataset, [success |-> TRUE, data |-> candidate[p]])
    /\ IF UploadConfigured(env)
       THEN IF PositionAtStart(candidate[p]) = "fetch"
            THEN ContinueUpload(p, <<"pushed">>, "fetch")
            ELSE ContinueUpload(p, <<"pushed">>,
                     transformToStrapiFormat(PositionAtStart(candidate[p])))
       ELSE /\ Log(p, <<"pushed">>)
            /\ status' = [status EXCEPT ![p] = "done"]
            /\ UNCHANGED <<step, retries, running>>
    /\ UNCHANGED <<clockVars, harnessVars, env, pages, candidate,
                   seenFestivals, invalidPages, afterInvalid>>

\* A handler that swallows the sink's failure and goes on to the upload.
PushRejectsSwallowed(p) ==
    /\ running = 0
    /\ status[p] = "pushing"
    /\ Log(p, <<"push_failed", "upload">>)
    /\ status' = [status EXCEPT ![p] = "uploading"]
    /\ UNCHANGED <<clockVars, harnessVars, env, pages, step, candidate,
                   retries, running, dataset, seenFestivals, invalidPages,
                   afterInvalid>>

\* A handler that takes its key out of the seen-set when the sink fails.
PushRejectsForgetsKey(p) ==
    /\ running = 0
    /\ status[p] = "pushing"
    /\ Log(p, <<"push_failed">>)
    /\ Throw(p)
    /\ seenFestivals' =
          seenFestivals \ {generateFestivalKey(candidate[p], tzOffset)}
    /\ UNCHANGED <<clockVars, harnessVars, env, pages, candidate, dataset,
                   invalidPages, afterInvalid>>

\* pushData rejected (the sink could not be written): the await throws.
PushRejects(p) ==
    /\ running = 0
    /\ status[p] = "pushing"
    /\ Log(p, <<"push_failed">>)
    /\ Throw(p)
    /\ UNCHANGED <<clockVars, harnessVars, env, pages, candidate, dataset,
                   seenFestivals, invalidPages, afterInvalid>>

\* The geocoding request settles.
GeocodeResolves(p) ==
    /\ running = 0
    /\ status[p] = "geocoding"
    /\ \E outcome \in GeocodeOutcomes :
          ContinueUpload(p, <<>>,
                         transformToStrapiFormat(geocodeLocation(outcome)))
    /\ UNCHANGED <<clockVars, harnessVars, env, pages, candidate, dataset,
                   seenFestivals, invalidPages, afterInvalid>>

\* The upload request settles.
UploadResolves(p) ==
    /\ running = 0
    /\ status[p] = "uploading"
    /\ \E outcome \in UploadOutcomes :
          ContinueUpload(p, <<>>, uploadToStrapi(outcome))
    /\ UNCHANGED <<clockVars, harnessVars, env, pages, candidate, dataset,
                   seenFestivals, invalidPages, afterInvalid>>

Init ==
    /\ tzOffset \in TZOffsets
    /\ now = ClockAt(22, tzOffset)
    /\ seenFestivals = {}
    /\ argA = NoFestival
    /\ argB = NoFestival
    /\ ret = NoRet
    /\ calls = <<>>
    /\ env \in EnvConfigs
    /\ pages \in [Pages -> PageShapes]
    /\ status = [p \in Pages |-> "queued"]
    /\ step = [p \in Pages |-> 0]
    /\ candidate = [p \in Pages |-> EmptyCandidate]
    /\ trace = [p \in Pages |-> <<>>]
    /\ retries = [p \in Pages |-> 0]
    /\ running = 0
    /\ dataset = <<>>
    /\ invalidPages = {}
    /\ afterInvalid = {}
    /\ cleanup = NoCleanup

Next ==
    \E p \in Pages :
        \/ Start(p)
        \/ ExtractTitle(p)
        \/ ParseJsonLd(p)
        \/ InitRecord(p)
        \/ ExtractDates(p)
        \/ TemporalFilter(p)
        \/ ExtractRest(p)
        \/ DuplicateCheck(p)
        \/ Validate(p)
        \/ PushResolves(p)
        \/ PushRejects(p)
        \/ GeocodeResolves(p)
        \/ UploadResolves(p)

Spec == Init /\ [][Next]_vars

-----------------------------------------------------------------------------
(* The crawl over pages at the edges of what the handlers expect, with     *)
(* the upload switched on.                                                 *)

EdgePageShapes ==
    { \* an assosagre page on which no title is found
      Page("assosagre", <<>>, NoJsonLd, <<FragNextMonth>>, <<"C">>, FALSE),
      \* JSON-LD with a Place that has a name and no coordinates
      Page("sagreinromagna", <<"A">>,
           JsonLdEvent(Tomorrow, Tomorrow, LocPlace(<<"C">>, FALSE)),
           <<>>, <<>>, FALSE),
      \* JSON-LD with a Place that has coordinates
      Page("sagreinemilia", <<"B">>,
           JsonLdEvent(Tomorrow, Tomorrow, LocPlace(<<"C">>, TRUE)),
           <<>>, <<>>, FALSE),
      \* an assosagre page with a map link carrying coordinates
      Page("assosagre", <<"B">>, NoJsonLd, <<FragNextMonth>>, <<"C">>, TRUE),
      \* an assosagre page without location text
      Page("assosagre", <<"C">>, NoJsonLd, <<FragNextMonth>>, <<>>, FALSE),
      \* a viviromagna page without a title
      Page("viviromagna", <<>>, NoJsonLd, <<FragFuture>>, <<"C">>, FALSE),
      \* JSON-LD with a Place, and a location line in the HTML as well
      Page("sagreinromagna", <<"C">>,
           JsonLdEvent(Tomorrow, Tomorrow, LocPlace(<<"C">>, TRUE)),
           <<>>, <<"b">>, FALSE) }

EdgeEnvConfigs ==
    {[ENABLE_STRAPI_UPLOAD |-> TRUE, STRAPI_URL |-> TRUE,
      GEOAPIFY_API_KEY |-> TRUE],
     [ENABLE_STRAPI_UPLOAD |-> TRUE, STRAPI_URL |-> FALSE,
      GEOAPIFY_API_KEY |-> TRUE]}

InitEdge ==
    /\ tzOffset \in TZOffsets
    /\ now = ClockAt(22, tzOffset)
    /\ seenFestivals = {}
    /\ argA = NoFestival
    /\ argB = NoFestival
    /\ ret = NoRet
    /\ calls = <<>>
    /\ env \in EdgeEnvConfigs
    /\ pages \in [Pages -> EdgePageShapes]
    /\ status = [p \in Pages |-> "queued"]
    /\ step = [p \in Pages |-> 0]
    /\ candidate = [p \in Pages |-> EmptyCandidate]
    /\ trace = [p \in Pages |-> <<>>]
    /\ retries = [p \in Pages |-> 0]
    /\ running = 0
    /\ dataset = <<>>
    /\ invalidPages = {}
    /\ afterInvalid = {}
    /\ cleanup = NoCleanup

SpecEdge == InitEdge /\ [][Next]_vars

----------------------------------------------------------------------------
(* The crawl over one well-formed page of each supported site: a title, a  *)
(* coming date and a location.                                             *)

SupportedPageShapes ==
    { Page("sagreinromagna", <<"A">>,
           JsonLdEvent(Tomorrow, Tomorrow, NoLocation), <<>>, <<"C">>, FALSE),
      Page("sagreinemilia", <<"B">>,
           JsonLdEvent(Tomorrow, Tomorrow, NoLocation), <<>>, <<"C">>, FALSE),
      Page("assosagre", <<"C">>, NoJsonLd, <<FragNextMonth>>, <<"b">>, TRUE),
      Page("viviromagna", <<"A">>, NoJsonLd, <<FragNextMonth>>, <<"b">>,
           FALSE) }

InitSupported ==
    /\ tzOffset \in TZOffsets
    /\ now = ClockAt(22, tzOffset)
    /\ seenFestivals = {}
    /\ argA = NoFestival
    /\ argB = NoFestival
    /\ ret = NoRet
    /\ calls = <<>>
    /\ env \in EdgeEnvConfigs
    /\ pages \in [Pages -> SupportedPageShapes]
    /\ status = [p \in Pages |-> "queued"]
    /\ step = [p \in Pages |-> 0]
    /\ candidate = [p \in Pages |-> EmptyCandidate]
    /\ trace = [p \in Pages |-> <<>>]
    /\ retries = [p \in Pages |-> 0]
    /\ running = 0
    /\ dataset = <<>>
    /\ invalidPages = {}
    /\ afterInvalid = {}
    /\ cleanup = NoCleanup

SpecSupported == InitSupported /\ [][Next]_vars

-----------------------------------------------------------------------------
(* Unit harness for parseItalianDate and getSourceFromUrl.                 *)

\* Texts of .sagradate elements and of viviromagna period blocks: day
\* lists with one month, with two months, across the turn of the year,
\* and "Dal ... al ..." periods.
PeriodTexts ==
    {<<Num(7), Dash, Num(8), Dash, Num(14), Dash, Num(15),
       Word("Novembre"), Num(2025)>>,
     <<Num(14), Dash, Num(7), Word("Novembre"), Num(2025)>>,
     <<Num(31), Word("Ottobre"), Num(1), Dash, Num(2),
       Word("Novembre"), Num(2025)>>,
     <<Num(2), Dash, Num(1), Word("Ottobre"), Num(3),
       Word("Novembre"), Num(2025)>>,
     <<Num(30), Dash, Num(31), Word("Dicembre"), Num(1),
       Word("Gennaio"), Num(2026)>>,
     <<Word("Dal"), Num(31), Word("ottobre"), Word("al"), Num(2),
       Word("novembre"), Num(2025)>>,
     <<Word("Dal"), Num(30), Word("dicembre"), Word("al"), Num(2),
       Word("gennaio"), Num(2026)>>,
     <<Word("Dal"), Num(7), Word("al"), Num(9), Word("novembre"),
       Num(2025)>>}

\* "{day} {word} {year}" and "{day} {word}", the word being a month name
\* in lower case or capitalized, NOVEMBRE, or a word that is no month; and
\* texts without a number.
UnitTexts ==
    LET words == {MonthNames[i] : i \in 1..12}
                 \cup {CapitalizedMonthNames[i] : i \in 1..12}
                 \cup {"NOVEMBRE", "sagra", "constructor"}
        days  == {1, 9, 28, 29, 30, 31}
    IN  {<<Num(d), Word(w), Num(y)>> :
            d \in days, w \in words, y \in {2024, 2025}}
        \cup {<<Num(d), Word(w)>> : d \in days, w \in words}
        \cup {<<>>, <<Word("sagra")>>}
        \cup PeriodTexts

UnitUrls ==
    {Url(h, p) : h \in {"www.sagreinromagna.it", "www.sagreinemilia.it"},
                 p \in {"/sagre/1", "/sagre/festa-della-romagna"}}

InitUnit ==
    /\ tzOffset \in TZOffsets
    /\ now = ClockAt(1, tzOffset)
    /\ seenFestivals = {}
    /\ argA \in {PartialFestival(u, <<>>, NoLocation, NoDate, NoDate, TRUE, <<t>>) :
                    u \in UnitUrls, t \in UnitTexts}
    /\ argB = NoFestival
    /\ ret = NoRet
    /\ calls = <<>>
    /\ NoCrawl
    /\ cleanup = NoCleanup

CallParseItalianDate ==
    /\ ret.op = "none"
    /\ ret' = [NoRet EXCEPT !.op = "parseItalianDate",
                            !.value = parseItalianDate(argA.dates[1], tzOffset)]
    /\ UNCHANGED <<now, tzOffset, seenFestivals, argA, argB, calls, crawlVars>>

CallGetSourceFromUrl ==
    /\ ret.op = "none"
    /\ ret' = [NoRet EXCEPT !.op = "getSourceFromUrl",
                            !.value = getSourceFromUrl(argA.url)]
    /\ UNCHANGED <<now, tzOffset, seenFestivals, argA, argB, calls, crawlVars>>

CallParseSagradateText ==
    /\ ret.op = "none"
    /\ ret' = [NoRet EXCEPT
                 !.op = "parseSagradateText",
                 !.value = parseSagradateText(argA.dates[1], now, tzOffset)]
    /\ UNCHANGED <<now, tzOffset, seenFestivals, argA, argB, calls, crawlVars>>

CallParseViviromagnaPeriod ==
    /\ ret.op = "none"
    /\ ret' = [NoRet EXCEPT
                 !.op = "parseViviromagnaPeriod",
                 !.value = parseViviromagnaPeriod(argA.dates[1], now, tzOffset)]
    /\ UNCHANGED <<now, tzOffset, seenFestivals, argA, argB, calls, crawlVars>>

NextUnit ==
    \/ CallParseItalianDate
    \/ CallGetSourceFromUrl
    \/ CallParseSagradateText
    \/ CallParseViviromagnaPeriod

SpecUnit == InitUnit /\ [][NextUnit]_vars

-----------------------------------------------------------------------------
(* cleanup.ts: the script that removes past festivals from the store.      *)

MaxFestivals == 2

\* A StrapiFestival, as far as the script looks: the dates are YYYY-MM-DD
\* strings or absent; its documentId is its place in the listing.
StoreFestivals ==
    {[startDate |-> sd, endDate |-> ed] :
        sd \in {NoDate, Yesterday, Today},
        ed \in {NoDate, Yesterday, Today, Tomorrow}}

RECURSIVE StoresUpTo(_)
StoresUpTo(n) ==
    IF n = 0 THEN {<<>>}
    ELSE StoresUpTo(n - 1)
         \cup {Append(st, f) : st \in {x \in StoresUpTo(n - 1) : Len(x) = n - 1},
                               f \in StoreFestivals}

\* isPastFestival: the end date against the start of today; without an end
\* date the start date against the present instant; a comparison with an
\* invalid Date is false.
isPastFestival(festival, n, off) ==
    IF ~Truthy(festival.endDate)
    THEN IF ~Truthy(festival.startDate) THEN FALSE
         ELSE /\ DateFromString(festival.startDate) # NaN
              /\ DateFromString(festival.startDate) < n
    ELSE /\ DateFromString(festival.endDate) # NaN
         /\ DateFromString(festival.endDate) < StartOfToday(n, off)

\* allFestivals.filter(isPastFestival), as documentIds.
PastFestivals(store, n, off) ==
    SelectSeq([i \in 1..Len(store) |-> i],
              LAMBDA i : isPastFestival(store[i], n, off))

InitCleanup ==
    /\ tzOffset \in TZOffsets
    /\ \E h \in NowHours : now = ClockAt(h, tzOffset)
    /\ seenFestivals = {}
    /\ argA = NoFestival
    /\ argB = NoFestival
    /\ ret = NoRet
    /\ calls = <<>>
    /\ NoCrawl
    /\ \E dryRun \in BOOLEAN, store \in StoresUpTo(MaxFestivals) :
          cleanup = [NoCleanup EXCEPT !.pc = "fetching", !.dryRun = dryRun,
                                      !.store = store]

\* What the loop does with a past festival.
OnPastFestivalDeletes(dryRun) == "delete"
OnPastFestival(dryRun) == IF dryRun THEN "skipped" ELSE "delete"

\* What the DELETE request can come to.
DeleteOutcomes == {"ok", "http_error", "network_error"}

\* deleteFestival: true for an ok response, false otherwise; the catch
\* turns an exception into false.
deleteFestival(outcome) == outcome = "ok"

FestivalInfo(documentId, st) == [documentId |-> documentId, status |-> st]

\* fetchAllFestivals settles.  A failure is rethrown by cleanupPastFestivals.
\* Otherwise the past festivals are selected and the loop runs up to its
\* first await: to the end in dry-run mode, to the first DELETE otherwise.
FetchResolves ==
    /\ cleanup.pc = "fetching"
    /\ \E ok \in BOOLEAN :
          LET past == PastFestivals(cleanup.store, now, tzOffset)
              c1   == [cleanup EXCEPT !.past = past,
                                      !.result.total = Len(past)]
          IN  cleanup' =
                 IF ~ok THEN [cleanup EXCEPT !.pc = "threw"]
                 ELSE IF Len(past) = 0 THEN [c1 EXCEPT !.pc = "returned"]
                 ELSE IF OnPastFestival(cleanup.dryRun) = "skipped"
                 THEN [c1 EXCEPT
                         !.pc = "returned",
                         !.result.festivals =
                             [k \in 1..Len(past) |->
                                 FestivalInfo(past[k], "skipped")]]
                 ELSE [c1 EXCEPT !.pc = "deleting", !.i = 1,
                                 !.deletes = <<past[1]>>]
    /\ UNCHANGED <<now, tzOffset, seenFestivals, argA, argB, ret, calls,
                   env, pages, status, step, candidate, trace, retries,
                   running, dataset, invalidPages, afterInvalid>>

\* A loop that a failed deletion brings to an end.
DeleteResolvesStopsOnFailure ==
    /\ cleanup.pc = "deleting"
    /\ \E outcome \in DeleteOutcomes :
          LET i    == cleanup.i
              past == cleanup.past
              c1 == [cleanup EXCEPT
                       !.result.deleted = @ + 1,
                       !.result.festivals =
                           Append(@, FestivalInfo(past[i], "deleted"))]
          IN  cleanup' =
                 IF ~deleteFestival(outcome)
                 THEN [cleanup EXCEPT !.pc = "threw"]
                 ELSE IF i < Len(past)
                 THEN [c1 EXCEPT !.i = i + 1,
                                 !.deletes = Append(@, past[i + 1])]
                 ELSE [c1 EXCEPT !.pc = "returned"]
    /\ UNCHANGED <<now, tzOffset, seenFestivals, argA, argB, ret, calls,
                   env, pages, status, step, candidate, trace, retries,
                   running, dataset, invalidPages, afterInvalid>>

\* The DELETE request of the festival in hand settles: it is counted and
\* listed, and the loop goes on to the next festival's DELETE or returns.
DeleteResolves ==
    /\ cleanup.pc = "deleting"
    /\ \E outcome \in DeleteOutcomes :
          LET success == deleteFestival(outcome)
              i       == cleanup.i
              past    == cleanup.past
              c1 == [cleanup EXCEPT
                       !.result.deleted = IF success THEN @ + 1 ELSE @,
                       !.result.failed  = IF success THEN @ ELSE @ + 1,
                       !.result.festivals =
                           Append(@, FestivalInfo(past[i],
                                      IF success THEN "deleted" ELSE "failed"))]
          IN  cleanup' =
                 IF i < Len(past)
                 THEN [c1 EXCEPT !.i = i + 1,
                                 !.deletes = Append(@, past[i + 1])]
                 ELSE [c1 EXCEPT !.pc = "returned"]
    /\ UNCHANGED <<now, tzOffset, seenFestivals, argA, argB, ret, calls,
                   env, pages, status, step, candidate, trace, retries,
                   running, dataset, invalidPages, afterInvalid>>

NextCleanup == FetchResolves \/ DeleteResolves

SpecCleanup == InitCleanup /\ [][NextCleanup]_vars

-----------------------------------------------------------------------------
(* Properties of the helpers.                                              *)

\* The calendar day written in a "YYYY-MM-DD" string, as a day number.
WrittenDay(ds) == DaysFromCivil(ds.y, ds.m, ds.d)

Parseable(ds) == ds.k = "ymd"

\* C2: since the last clearDuplicateCache, isDuplicate returns false exactly
\* for the first call with a key and true for every later call with that
\* key, and the Set holds exactly the keys of the calls made since the clear
\* (so after a clear every key is new again).
C2_FirstSeenThenDuplicate ==
    /\ \A i \in 1..Len(calls) :
          calls[i].result = (\E j \in 1..(i - 1) : calls[j].key = calls[i].key)
    /\ seenFestivals = {calls[i].key : i \in 1..Len(calls)}

\* C2 witness: after a clear that emptied a non-empty Set, a key that had
\* been seen before the clear is new again (false) and then a duplicate
\* (true) when the same record is handed in a second time.
C2_Witness ==
    /\ Len(calls) >= 2
    /\ calls[1].key \in ret.cleared
    /\ calls[1].result = FALSE
    /\ calls[2].key = calls[1].key /\ calls[2].url = calls[1].url
    /\ calls[2].result = TRUE

\* The month and year of the record's date as written: of startDate when it
\* is present, else of the date the first raw fragment names, else nothing.
WrittenMonthYear(f, off) ==
    IF Truthy(f.startDate)
    THEN IF Parseable(f.startDate) THEN <<f.startDate.m, f.startDate.y>>
         ELSE <<>>
    ELSE IF Len(f.dates) > 0 /\ parseItalianDate(f.dates[1], off) # Null
    THEN LET c == LocalCivil(parseItalianDate(f.dates[1], off), off)
         IN  <<c.m, c.y>>
    ELSE <<>>

NormalizedTitle(f) == Trim(ToLowerCase(f.title))
NormalizedLocation(f) == Trim(ToLowerCase(f.location.s))

\* C3: two records have the same key exactly when their normalized titles,
\* their normalized location strings and their month-year are equal; the
\* url plays no part.
C3_KeyEqualIffTitleLocationMonth ==
    ret.op = "generateFestivalKey" =>
        ((ret.keyA = ret.keyB) <=>
            /\ NormalizedTitle(argA) = NormalizedTitle(argB)
            /\ NormalizedLocation(argA) = NormalizedLocation(argB)
            /\ WrittenMonthYear(argA, tzOffset) = WrittenMonthYear(argB, tzOffset))

\* C7: with an endDate that parses, isFestivalPast is true exactly when the
\* endDate's calendar day is before today's calendar day, in every time
\* zone.
C7_EndDatePastIffBeforeToday ==
    (ret.op = "isFestivalPast" /\ Parseable(argA.endDate)) =>
        (ret.value <=> WrittenDay(argA.endDate) < LocalToday)

FragmentParses(frag) == parseItalianDate(frag, tzOffset) # Null
FragmentBeforeToday(frag) ==
    parseItalianDate(frag, tzOffset) < StartOfToday(now, tzOffset)

\* C8: with no parseable endDate or startDate and some raw fragments,
\* isFestivalPast is true only if a fragment parses and every fragment that
\* parses is before today; otherwise the record is kept.
C8_FragmentsPastOnlyIfSomeParsed ==
    (/\ ret.op = "isFestivalPast"
     /\ ~ Parseable(argA.endDate) /\ ~ Parseable(argA.startDate)
     /\ Len(argA.dates) > 0) =>
        (ret.value <=>
            /\ \E i \in 1..Len(argA.dates) : FragmentParses(argA.dates[i])
            /\ \A i \in 1..Len(argA.dates) :
                  FragmentParses(argA.dates[i])
                      => FragmentBeforeToday(argA.dates[i]))

-----------------------------------------------------------------------------
(* Properties of the crawl.                                                *)

CheckEvents ==
    {"past=true", "past=false", "dup=true", "dup=false",
     "valid=true", "valid=false", "pushData"}

\* What the current run of page p's handler has checked and done, in order.
Checks(p) == SelectSeq(trace[p], LAMBDA e : e \in CheckEvents)

IsPrefix(a, b) == Len(a) <= Len(b) /\ a = SubSeq(b, 1, Len(a))

Has(p, event) == \E i \in 1..Len(trace[p]) : trace[p][i] = event

KeyOfPage(p) == generateFestivalKey(candidate[p], tzOffset)

KeysInSink ==
    {generateFestivalKey(dataset[i].data, tzOffset) : i \in 1..Len(dataset)}

Settled(p) == status[p] \in {"done", "failed"}

\* C1: in every detail handler the sink is called only after the temporal
\* filter said "not past", then the duplicate check said "new", then the
\* validation succeeded, in that order; a run that stops earlier stopped at
\* the first check that failed.
C1_ChecksInOrderBeforePush ==
    \A p \in Pages :
        \/ IsPrefix(Checks(p),
                    <<"past=false", "dup=false", "valid=true", "pushData">>)
        \/ Checks(p) \in {<<"past=true">>,
                          <<"past=false", "dup=true">>,
                          <<"past=false", "dup=false", "valid=false">>}

\* C1 witness: a romagna-emilia page and an assosagre page have both been
\* pushed after their three checks.
C1_Witness ==
    \E p, q \in Pages :
        /\ LabelOf(pages[p].site) = "romagna-emilia-festival-detail"
        /\ LabelOf(pages[q].site) = "assosagre-detail"
        /\ Has(p, "pushed") /\ Has(q, "pushed")

\* C4: every key in the seen-set is the key of a record that has been
\* pushed to the sink.
C4_SeenKeysWerePushed == seenFestivals \subseteq KeysInSink

\* C5: a page with a valid record that was skipped as a duplicate on its
\* first attempt was preceded by a page with the same key that did get
\* emitted; a page whose handler raised does not make another page a
\* duplicate.
C5_FailedPageHidesNoOther ==
    (\A p \in Pages : Settled(p)) =>
        \A q \in Pages :
            (/\ retries[q] = 0 /\ Has(q, "dup=true")
             /\ FestivalDataSchema(candidate[q]))
            => KeyOfPage(q) \in KeysInSink

\* C6: no two records in the sink have the same duplicate key.
C6_NoKeyPushedTwice ==
    \A i, j \in 1..Len(dataset) :
        i # j => generateFestivalKey(dataset[i].data, tzOffset)
                    # generateFestivalKey(dataset[j].data, tzOffset)

\* C6 witness: while the handler of one page is suspended in its pushData,
\* the handler of another page with the same key ran and was turned away as
\* a duplicate.
C6_Witness ==
    \E p, q \in Pages :
        /\ p # q
        /\ status[p] = "pushing" /\ retries[p] = 0
        /\ status[q] = "done" /\ retries[q] = 0 /\ Has(q, "dup=true")
        /\ KeyOfPage(p) = KeyOfPage(q)

\* Date text was found on page p and nothing could be made of it.
NotNormalized(p) ==
    /\ pages[p].dateText # <<>>
    /\ candidate[p].dates = pages[p].dateText
    /\ ~ Truthy(candidate[p].startDate) /\ ~ Truthy(candidate[p].endDate)
    /\ \A i \in 1..Len(candidate[p].dates) :
          parseItalianDate(candidate[p].dates[i], tzOffset) = Null

\* C9: a page whose date text could not be normalized, and that is neither
\* a duplicate nor invalid, is emitted once its handler has returned.
C9_UnparsedDatesStillEmitted ==
    \A p \in Pages :
        (status[p] = "done" /\ NotNormalized(p)
            /\ ~ Has(p, "dup=true") /\ ~ Has(p, "valid=false"))
        => Has(p, "pushed")

\* C10: a page whose candidate was rejected by the validation has raised
\* (it is queued for a retry or failed), its handler called neither the
\* sink nor the geocoder nor the upload, and the sink holds no record of it.
C10_InvalidRaisesWithoutEmitting ==
    \A p \in Pages :
        /\ Has(p, "valid=false") =>
              /\ status[p] \in {"queued", "failed"}
              /\ ~ Has(p, "pushData") /\ ~ Has(p, "pushed")
              /\ ~ Has(p, "geocode") /\ ~ Has(p, "upload")
        /\ p \in invalidPages =>
              \A i \in 1..Len(dataset) : dataset[i].data.url # candidate[p].url

\* C10 witness: the handler of a page has raised on its validation, and a
\* page whose handler started after that rejection has been pushed.
C10_Witness ==
    \E p, q \in Pages :
        /\ p \in invalidPages /\ status[p] = "queued"
        /\ Has(p, "valid=false")
        /\ q \in afterInvalid /\ Has(q, "pushed")

-----------------------------------------------------------------------------
(* Properties of the crawl: titles, defaults, upload.                      *)

\* C11: no record with an empty title is in the sink, and a handler that
\* found no title ran neither the temporal filter, the duplicate check nor
\* the validation.
C11_EmptyTitleAbortsPage ==
    /\ \A i \in 1..Len(dataset) : dataset[i].data.title # <<>>
    /\ \A p \in Pages :
          (status[p] # "queued" /\ step[p] > 1 /\ pages[p].title = <<>>)
          => Checks(p) = <<>>

\* The required keys that default to an empty collection or string.
DefaultedKeys ==
    {"dates", "images", "paragraphs", "categories", "schedule", "prices",
     "metaDescription", "ogImage", "ogTitle", "province", "fullText"}

\* C12: every candidate that reaches the validation has all the defaulted
\* keys defined, and no page is rejected for lacking one of them.
C12_DefaultsReachValidator ==
    \A p \in Pages :
        (At(p, "validate") \/ Has(p, "valid=false") \/ Has(p, "valid=true"))
        => DefaultedKeys \subseteq candidate[p].fields

UploadEvents ==
    {"geocode", "upload", "upload=true", "upload=false", "process_threw"}

InSink(festivalData) ==
    \E i \in 1..Len(dataset) : dataset[i].data = festivalData

\* C13: the upload and the geocoding of a record start only after pushData
\* has completed for it, and whatever comes of them the emitted record is
\* still in the sink, unchanged.
C13_UploadOnlyAfterPush ==
    \A p \in Pages :
        ((\E e \in UploadEvents : Has(p, e))
            \/ status[p] \in {"geocoding", "uploading"})
        => /\ Has(p, "pushed")
           /\ \A i \in 1..Len(trace[p]) :
                 trace[p][i] \in UploadEvents
                 => \E j \in 1..(i - 1) : trace[p][j] = "pushed"
           /\ InSink(candidate[p])

\* C13 witness: a record was pushed, its geocoding found nothing, the
\* upload was given up, and the record is in the sink.
C13_Witness ==
    \E p \in Pages :
        /\ status[p] = "done"
        /\ Has(p, "geocode")
        /\ Has(p, "upload=false")
        /\ InSink(candidate[p])

\* C14: processFestivalForStrapi never throws into the handler: once the
\* record is pushed the handler awaits a collaborator or has completed,
\* and the upload ended with a boolean.
C14_UploadNeverThrows ==
    \A p \in Pages :
        Has(p, "pushed")
        => /\ status[p] \in {"geocoding", "uploading", "done"}
           /\ ~Has(p, "process_threw")
           /\ (status[p] = "done" /\ UploadConfigured(env))
              => (Has(p, "upload=true") \/ Has(p, "upload=false"))

\* C14 witness: a record whose location is a structured object without
\* coordinates went through processFestivalForStrapi, which returned
\* false, and the handler completed.
C14_Witness ==
    \E p \in Pages :
        /\ candidate[p].location.k = "obj"
        /\ ~candidate[p].location.geo
        /\ Has(p, "upload=false")
        /\ status[p] = "done"

\* C15: for a record into which the handler injected map coordinates as
\* synthesized structured data, the geocoder is not called and the upload
\* goes out with that position.
C15_InjectedCoordinatesSkipGeocoding ==
    \A p \in Pages :
        (/\ candidate[p].structuredData.k = "geo"
         /\ Has(p, "pushed")
         /\ UploadConfigured(env))
        => /\ ~Has(p, "geocode")
           /\ Has(p, "upload")

\* C16: the sink is called once for each accepted page and never for
\* another, and the value it is given is the validated record itself,
\* with url, title, source, dates, ... as its top-level fields.
C16_SinkGetsTheRecordOnce ==
    /\ Len(dataset) = Cardinality({p \in Pages : Has(p, "pushed")})
    /\ \A i \in 1..Len(dataset) :
          /\ {"url", "title", "source", "dates"} \subseteq DOMAIN dataset[i]
          /\ \E p \in Pages : Has(p, "pushed") /\ dataset[i] = candidate[p]

-----------------------------------------------------------------------------
(* Properties of parseItalianDate and getSourceFromUrl.                    *)

\* The text handed to parseItalianDate, when it is "{day} {word} ...".
WrittenText == argA.dates[1]
DayAndWord ==
    /\ Len(WrittenText) >= 2
    /\ WrittenText[1].t = "num"
    /\ WrittenText[2].t = "word"
WrittenMonth == monthMap(LowerWord(WrittenText[2].s))

\* C17: "{day} {month-name}" without a year parses to that day and month
\* of the current year, not to null.
C17_YearDefaultsToCurrent ==
    (/\ ret.op = "parseItalianDate"
     /\ DayAndWord /\ Len(WrittenText) = 2
     /\ WrittenMonth \in 0..11)
    => /\ ret.value # Null
       /\ LocalCivil(ret.value, tzOffset) =
             [y |-> CurrentYear(now, tzOffset), m |-> WrittenMonth + 1,
              d |-> WrittenText[1].v]

\* C18: "{day} {month-name} {year}" with day 1-31 parses to the day, month
\* and year written; a text without a recognizable month name parses to
\* null; no text makes the parser throw (it always returns null or a date).
C18_WrittenDateOrNull ==
    ret.op = "parseItalianDate"
    => /\ (DayAndWord /\ Len(WrittenText) = 3 /\ WrittenMonth \in 0..11)
          => /\ ret.value \notin {Null, NaN}
             /\ LocalCivil(ret.value, tzOffset) =
                   [y |-> WrittenText[3].v, m |-> WrittenMonth + 1,
                    d |-> WrittenText[1].v]
       /\ (~ \E i \in 1..Len(WrittenText) :
                 /\ WrittenText[i].t = "word"
                 /\ monthMap(LowerWord(WrittenText[i].s)) \in 0..11)
          => ret.value = Null

\* C19: a loaded URL on www.sagreinemilia.it gives the source
\* "sagreinemilia.it" and one on www.sagreinromagna.it gives
\* "sagreinromagna.it", whatever its path holds.
C19_SourceFollowsHost ==
    ret.op = "getSourceFromUrl"
    => /\ argA.url.host = "www.sagreinemilia.it"
          => ret.value = "sagreinemilia.it"
       /\ argA.url.host = "www.sagreinromagna.it"
          => ret.value = "sagreinromagna.it"

-----------------------------------------------------------------------------
(* Properties of the cleanup.                                              *)

\* C20: a dry run issues no DELETE request: deleted and failed stay 0, and
\* when it returns total is the number of past festivals in the store and
\* each of them is listed once with status "skipped".
C20_DryRunDeletesNothing ==
    cleanup.dryRun
    => /\ cleanup.deletes = <<>>
       /\ cleanup.pc # "deleting"
       /\ cleanup.result.deleted = 0
       /\ cleanup.result.failed = 0
       /\ cleanup.pc = "returned"
          => /\ cleanup.result.total =
                   Cardinality({i \in 1..Len(cleanup.store) :
                       isPastFestival(cleanup.store[i], now, tzOffset)})
             /\ Len(cleanup.result.festivals) = cleanup.result.total
             /\ \A k \in 1..Len(cleanup.result.festivals) :
                   /\ cleanup.result.festivals[k].status = "skipped"
                   /\ cleanup.result.festivals[k].documentId = cleanup.past[k]

\* C20 witness: a dry run over a store with two past festivals returned.
C20_Witness ==
    /\ cleanup.dryRun
    /\ cleanup.pc = "returned"
    /\ cleanup.result.total = 2
    /\ Len(cleanup.result.festivals) = 2

\* The date the cleanup judges a festival by, and the day it is written as.
DecidingDate(festival) ==
    IF Truthy(festival.endDate) THEN festival.endDate ELSE festival.startDate
DayNumber(ds) == DaysFromCivil(ds.y, ds.m, ds.d)

\* C21: a festival is selected for deletion only if its end date, or its
\* start date when it has no end date, is a calendar day strictly before
\* today; a festival without dates, or whose only date is today, is kept.
C21_SelectedOnlyIfBeforeToday ==
    cleanup.pc \in {"deleting", "returned"}
    => \A k \in 1..Len(cleanup.past) :
          LET date == DecidingDate(cleanup.store[cleanup.past[k]])
          IN  /\ date.k = "ymd"
              /\ DayNumber(date) < DayNumber(LocalCivil(now, tzOffset))

\* C22: without dry-run a failed deletion does not end the loop: DELETEs
\* are issued once each for the past festivals, in order; the run throws
\* only when the listing could not be fetched; and on return every past
\* festival is listed as "deleted" or "failed" and
\* deleted + failed = total = the number of listed festivals.
C22_FailedDeletionDoesNotStopLoop ==
    ~cleanup.dryRun
    => /\ IsPrefix(cleanup.deletes, cleanup.past)
       /\ cleanup.pc = "threw" => cleanup.deletes = <<>>
       /\ cleanup.pc = "returned"
          => /\ cleanup.deletes = cleanup.past
             /\ Len(cleanup.result.festivals) = Len(cleanup.past)
             /\ \A k \in 1..Len(cleanup.result.festivals) :
                   /\ cleanup.result.festivals[k].documentId = cleanup.past[k]
                   /\ cleanup.result.festivals[k].status \in {"deleted", "failed"}
             /\ cleanup.result.deleted + cleanup.result.failed
                   = cleanup.result.total
             /\ cleanup.result.total = Len(cleanup.result.festivals)
             /\ cleanup.result.failed =
                   Cardinality({k \in 1..Len(cleanup.result.festivals) :
                       cleanup.result.festivals[k].status = "failed"})

\* C22 witness: the first deletion failed, the second went through, and
\* the run returned.
C22_Witness ==
    /\ ~cleanup.dryRun
    /\ cleanup.pc = "returned"
    /\ Len(cleanup.result.festivals) = 2
    /\ cleanup.result.festivals[1].status = "failed"
    /\ cleanup.result.festivals[2].status = "deleted"

-----------------------------------------------------------------------------
(* Properties of the crawl: order of extraction, JSON-LD, retries.         *)

\* What the handlers extract besides title and dates, JSON-LD apart.
LaterKeys ==
    {"province", "metaDescription", "ogImage", "ogTitle", "images",
     "paragraphs", "categories", "schedule", "prices", "fullText"}

\* C23: when a handler calls isFestivalPast, none of province, metadata,
\* images, paragraphs, categories, schedule, prices or full text has been
\* extracted into its record yet.
C23_TemporalFilterBeforeExtraction ==
    \A p \in Pages :
        At(p, "temporal") => candidate[p].fields \cap LaterKeys = {}

\* The handler of page p has gone through all of its extraction.
Extracted(p) == Has(p, "dup=false") \/ Has(p, "dup=true")

\* C24: for a romagna-emilia page with a JSON-LD Event, the record's
\* startDate, endDate and location are the JSON-LD values wherever JSON-LD
\* supplies them; an HTML value stands only where JSON-LD has none.
C24_JsonLdTakesPrecedence ==
    \A p \in Pages :
        (/\ LabelOf(pages[p].site) = "romagna-emilia-festival-detail"
         /\ pages[p].jsonld.k = "event"
         /\ Extracted(p))
        => /\ Truthy(pages[p].jsonld.startDate)
              => candidate[p].startDate = pages[p].jsonld.startDate
           /\ Truthy(pages[p].jsonld.endDate)
              => candidate[p].endDate = pages[p].jsonld.endDate
           /\ pages[p].jsonld.location.k # "none"
              => candidate[p].location = pages[p].jsonld.location

\* C25: a JSON-LD script that cannot be used never makes the handler
\* raise: the page is not retried for it and goes on to the temporal
\* filter.
C25_BadJsonLdIsIgnored ==
    \A p \in Pages :
        pages[p].jsonld.k = "malformed"
        => /\ ~Has(p, "json_error")
           /\ retries[p] = 0
           /\ status[p] # "failed"

-----------------------------------------------------------------------------
(* Properties of the per-source date parsers.                              *)

\* The text handed to the parser, its month words, and the day numbers
\* written before and after the first of them.
MonthsAt == MonthIndices(WrittenText)
YearWritten == WrittenText[Len(WrittenText)].v
MonthWritten(k) == monthMap(LowerWord(WrittenText[MonthsAt[k]].s)) + 1
DaysWritten(from, to) ==
    {WrittenText[i].v : i \in {j \in from..to : IsDayToken(WrittenText[j])}}
Least(S) == CHOOSE x \in S : \A y \in S : x <= y
Greatest(S) == CHOOSE x \in S : \A y \in S : x >= y

\* Day d exists in month m of year y.
DayExists(d, m, y) ==
    d >= 1 /\ CivilFromDays(DaysFromCivil(y, m, 1) + d - 1).m = m

\* "{d}-{d}-... {month} {year}", every day being a day of that month
OneMonthText ==
    /\ Len(WrittenText) >= 3
    /\ Len(MonthsAt) = 1 /\ MonthsAt[1] = Len(WrittenText) - 1
    /\ IsYearToken(WrittenText[Len(WrittenText)])
    /\ \A i \in 1..(Len(WrittenText) - 2) :
          IF i % 2 = 1 THEN IsDayToken(WrittenText[i])
          ELSE WrittenText[i].t = "dash"
    /\ \A d \in DaysWritten(1, Len(WrittenText)) :
          DayExists(d, MonthWritten(1), YearWritten)

\* "{days} {month} {days} {month} {year}", every day being a day of the
\* month it is written with
TwoMonthText ==
    /\ Len(WrittenText) >= 5
    /\ Len(MonthsAt) = 2 /\ MonthsAt[2] = Len(WrittenText) - 1
    /\ IsYearToken(WrittenText[Len(WrittenText)])
    /\ DaysWritten(1, MonthsAt[1]) # {}
    /\ DaysWritten(MonthsAt[1], MonthsAt[2]) # {}
    /\ \A i \in 1..(Len(WrittenText) - 2) :
          WrittenText[i].t \in {"num", "dash"} \/ i = MonthsAt[1]
    /\ \A d \in DaysWritten(1, MonthsAt[1]) :
          DayExists(d, MonthWritten(1), YearWritten)
    /\ \A d \in DaysWritten(MonthsAt[1], MonthsAt[2]) :
          DayExists(d, MonthWritten(2), YearWritten)

\* C26: for a hyphen-separated list of days, one month name and a year,
\* parseSagradateText returns the smallest day of that month and year as
\* startDate and the largest as endDate.
C26_OneMonthRange ==
    (ret.op = "parseSagradateText" /\ OneMonthText)
    => /\ ret.value.startDate =
             Ymd(YearWritten, MonthWritten(1),
                 Least(DaysWritten(1, Len(WrittenText))))
       /\ ret.value.endDate =
             Ymd(YearWritten, MonthWritten(1),
                 Greatest(DaysWritten(1, Len(WrittenText))))

\* C27: for a text with two month names, parseSagradateText returns the
\* earliest day written with the first month as startDate and the latest
\* day written after it, with the last month, as endDate.
C27_TwoMonthRange ==
    (ret.op = "parseSagradateText" /\ TwoMonthText)
    => /\ ret.value.startDate =
             Ymd(YearWritten, MonthWritten(1),
                 Least(DaysWritten(1, MonthsAt[1])))
       /\ ret.value.endDate =
             Ymd(YearWritten, MonthWritten(2),
                 Greatest(DaysWritten(MonthsAt[1], MonthsAt[2])))

\* C29: when a per-source parser sets both startDate and endDate, the
\* start is not after the end.
C29_StartNotAfterEnd ==
    (/\ ret.op \in {"parseSagradateText", "parseViviromagnaPeriod"}
     /\ ret.value.startDate.k = "ymd"
     /\ ret.value.endDate.k = "ymd")
    => DayNumber(ret.value.startDate) <= DayNumber(ret.value.endDate)

-----------------------------------------------------------------------------
(* Properties of the crawl: retries and source identifiers.                *)

\* The handler of page p raised after its duplicate check said "new": it
\* waits for its retry, or the retry has come to its own duplicate check.
\* (A page with unusable JSON-LD raises before the check.)
RaisedAfterCheck(p) ==
    /\ pages[p].jsonld.k # "malformed"
    /\ \/ status[p] = "queued" /\ Has(p, "dup=false")
       \/ retries[p] > 0 /\ Has(p, "dup=true")

\* C28: once a handler raised after isDuplicate returned false, its key
\* stays in the seen-set and no record with that key is in the sink; the
\* retry of the page returns at the duplicate check, so the page is
\* retried once and never pushed.
C28_RaisedKeyBlocksRecord ==
    \A p \in Pages :
        /\ RaisedAfterCheck(p)
           => /\ KeyOfPage(p) \in seenFestivals
              /\ KeyOfPage(p) \notin KeysInSink
        /\ (pages[p].jsonld.k # "malformed" /\ retries[p] > 0)
           => /\ retries[p] = 1
              /\ status[p] \in {"queued", "running", "done"}
              /\ status[p] = "running" => ~Has(p, "dup=false")
              /\ status[p] = "done" => Has(p, "dup=true")

\* C28 witness: the sink rejected the record of one page; its retry and
\* another page with the same key were both turned away as duplicates,
\* and the record is not in the sink.
C28_Witness ==
    \E p, q \in Pages :
        /\ p # q
        /\ FestivalDataSchema(candidate[p])
        /\ retries[p] = 1 /\ status[p] = "done" /\ Has(p, "dup=true")
        /\ retries[q] = 0 /\ status[q] = "done" /\ Has(q, "dup=true")
        /\ KeyOfPage(p) = KeyOfPage(q)
        /\ KeyOfPage(p) \notin KeysInSink

\* C30: the source each handler gives its record is a member of the
\* validator's source enum, and a page with a title, a date that is not
\* past and a key not seen before passes the validation.
C30_SourceIsInEnum ==
    \A p \in Pages :
        (/\ Has(p, "dup=false")
         /\ pages[p].title # <<>>
         /\ pages[p].dateText # <<>> \/ pages[p].jsonld.k = "event")
        => /\ candidate[p].source \in SourceEnum
           /\ ~Has(p, "valid=false")

=============================================================================
